---- MODULE Spec2Model ----
(***************************************************************************)
(* Model of jjinsun/asos_weibull_example.py: one run of main(), which      *)
(* fetches hourly ASOS observations, writes them to a CSV file, fits a     *)
(* Weibull distribution to the wind-speed column, plots it and prints a    *)
(* summary.                                                                *)
(*                                                                         *)
(* A response item is a JSON object with the optional fields "tm" and     *)
(* "ws" (every item carries at least one of them).  To reach the sample   *)
(* count 100 that fit_weibull tests, the item list is kept run-length      *)
(* encoded: a run [item, n] stands for n consecutive identical items, and  *)
(* every length (len(df), len(ws)) is the sum of the run lengths.          *)
(***************************************************************************)
EXTENDS Integers, Sequences, FiniteSets, TLC

\* Bounds of the model: the runs of a response, the runs of a sample handed
\* to fit_weibull alone, and the length of a long run.
MaxRuns == 2
MaxSample == 3
BulkRun == 99

\* len(ws) < 100 in fit_weibull.
LowSampleThreshold == 100

RunLens == {1, BulkRun}

\* A field the JSON object does not have (dict.get's default applies).
NoKey == "<no key>"

(***************************************************************************)
(* Cells of the table: a number, or missing (NaN for numbers, NaT for      *)
(* timestamps).                                                            *)
(***************************************************************************)
NaN == [na |-> TRUE, v |-> 0]
Num(x) == [na |-> FALSE, v |-> x]

TmRaw == {"2024-01-01 01:00", "2024-01-01 02:00"}
WsRaw == {"-1", "0", "3", ""}

\* pd.to_datetime(..., errors="coerce"): a parsable text becomes a time (here
\* the hour of the day), anything else, a missing field included, NaT.
to_datetime(s) ==
    CASE s = "2024-01-01 01:00" -> Num(1)
      [] s = "2024-01-01 02:00" -> Num(2)
      [] OTHER -> NaN

\* pd.to_numeric(..., errors="coerce"): a numeral becomes its number, anything
\* else, a missing field included, NaN.
to_numeric(s) ==
    CASE s = "-1" -> Num(-1)
      [] s = "0" -> Num(0)
      [] s = "3" -> Num(3)
      [] OTHER -> NaN

(***************************************************************************)
(* The API response.                                                       *)
(***************************************************************************)
\* The items of a response of a whole run: a wind speed is a reading or the
\* empty text of a missing one (every sign of it is in SampleLists below).
Items ==
    {[tm |-> t, ws |-> w] : t \in TmRaw \cup {NoKey}, w \in {"3", "", NoKey}}
        \ {[tm |-> NoKey, ws |-> NoKey]}

Runs == [item : Items, n : RunLens]

ItemLists == UNION {[1..k -> Runs] : k \in 0..MaxRuns}

\* response.header.resultCode and response.body.items.item of the JSON body;
\* hasItem = FALSE is a body without an item list.
Bodies ==
    {[resultCode |-> c, hasItem |-> h, item |-> l] :
        c \in {"00", "03"}, h \in BOOLEAN, l \in ItemLists}
            \ {b \in [resultCode : {"00", "03"}, hasItem : {FALSE},
                      item : ItemLists] : b.item # << >>}

NoBody == [resultCode |-> NoKey, hasItem |-> FALSE, item |-> << >>]
NoResponse == [status |-> 0, body |-> NoBody]

\* j.get("response", {}).get("body", {}).get("items", {}).get("item", [])
ItemsOf(j) == IF j.hasItem THEN j.item ELSE << >>

\* j.get("response", {}).get("header", {}).get("resultCode") != "00"
HeaderWarns(j) == j.resultCode # "00"

(***************************************************************************)
(* Tables (pandas DataFrame).  A row keeps both cells; a cell of a column  *)
(* the table does not have is never read.                                 *)
(***************************************************************************)
EmptyDataFrame == [columns |-> {}, rows |-> << >>]

\* df.empty: no rows or no columns.
IsEmpty(df) == df.columns = {} \/ Len(df.rows) = 0

RECURSIVE SumN(_)
SumN(s) == IF s = << >> THEN 0 ELSE Head(s).n + SumN(Tail(s))

\* len(df), len(ws)
Length(s) == SumN(s)

\* pd.DataFrame(items): the columns are the fields some item has.
Columns(items) ==
    {c \in {"tm", "ws"} :
        \E i \in 1..Len(items) :
            IF c = "tm" THEN items[i].item.tm # NoKey ELSE items[i].item.ws # NoKey}

\* a must stand before b: NaT sorts last (na_position="last").
Before(a, b) == ~a.na /\ (b.na \/ a.v < b.v)

SortedByTm(rows) ==
    \A i, k \in 1..Len(rows) : i < k => ~Before(rows[k].tm, rows[i].tm)

Perms(n) == {p \in [1..n -> 1..n] : \A i, k \in 1..n : i # k => p[i] # p[k]}

sort_values_unsorted(rows) == {rows}

\* df.sort_values("tm").reset_index(drop=True): the rows in ascending order of
\* tm; the default sort is not stable, so rows of equal tm come in any order.
sort_values(rows) ==
    {q \in {[i \in 1..Len(rows) |-> rows[p[i]]] : p \in Perms(Len(rows))} :
        SortedByTm(q)}

fetch_asos_hourly_fatal_code(j) ==
    IF HeaderWarns(j) \/ Len(ItemsOf(j)) = 0
    THEN {[warned |-> HeaderWarns(j), df |-> EmptyDataFrame]}
    ELSE {[warned |-> FALSE,
           df |-> [columns |-> Columns(ItemsOf(j)),
                   rows |-> [i \in 1..Len(ItemsOf(j)) |->
                       [tm |-> to_datetime(ItemsOf(j)[i].item.tm),
                        ws |-> to_numeric(ItemsOf(j)[i].item.ws),
                        n |-> ItemsOf(j)[i].n]]]]}

\* fetch_asos_hourly from r.json() on: the warning it prints and the table
\* it returns (a set: the order of rows of equal tm is not determined).
fetch_asos_hourly(j) ==
    LET items == ItemsOf(j)
        cols == Columns(items)
        dated == [i \in 1..Len(items) |->
                    [tm |-> IF "tm" \in cols THEN to_datetime(items[i].item.tm) ELSE NaN,
                     ws |-> items[i].item.ws,
                     n |-> items[i].n]]
        numeric(rows) == [i \in 1..Len(rows) |->
                    [tm |-> rows[i].tm,
                     ws |-> IF "ws" \in cols THEN to_numeric(rows[i].ws) ELSE NaN,
                     n |-> rows[i].n]]
    IN  IF Len(items) = 0
        THEN {[warned |-> HeaderWarns(j), df |-> EmptyDataFrame]}
        ELSE {[warned |-> HeaderWarns(j),
               df |-> [columns |-> cols, rows |-> numeric(s)]] :
                 s \in IF "tm" \in cols THEN sort_values(dated) ELSE {dated}}

(***************************************************************************)
(* fit_weibull and plot_hist_with_weibull.                                 *)
(***************************************************************************)
\* df["ws"]: the column as a sequence of runs [v, n].
Column(df) == [i \in 1..Len(df.rows) |-> [v |-> df.rows[i].ws, n |-> df.rows[i].n]]

\* ws.dropna()
dropna(ws) == SelectSeq(ws, LAMBDA x : ~x.v.na)

NonNegative_strict(ws) == SelectSeq(ws, LAMBDA x : ~x.v.na /\ x.v.v > 0)

\* ws[ws >= 0]: a comparison with NaN is False.
NonNegative(ws) == SelectSeq(ws, LAMBDA x : ~x.v.na /\ x.v.v >= 0)

LowSample_inclusive(ws) == Length(ws) <= LowSampleThreshold

\* len(ws) < 100
LowSample(ws) == Length(ws) < LowSampleThreshold

\* weibull_min.fit(data, floc=0) of scipy: on a non-empty sample the maximum
\* likelihood pair (k, c) of that sample; an empty sample makes the library
\* raise its own error or return a pair of NaN, depending on its version.
WeibullMinFit(data, onEmpty) ==
    IF Len(data) = 0
    THEN [kind |-> onEmpty, of |-> data]
    ELSE [kind |-> "mle", of |-> data]

NoFit == [warned |-> FALSE, data |-> << >>, calls |-> 0,
          result |-> [kind |-> "none", of |-> << >>]]

\* fit_weibull(ws): the warning printed, the data handed to the fitting
\* routine, the number of calls of the routine and what it gave.
fit_weibull(ws, onEmpty) ==
    LET data == NonNegative(dropna(ws))
    IN  [warned |-> LowSample(data), data |-> data, calls |-> 1,
         result |-> WeibullMinFit(data, onEmpty)]

\* plot_hist_with_weibull: TRUE when the figure is saved, FALSE when it
\* returns early on an empty sample.
plot_hist_with_weibull(ws) == Len(NonNegative(dropna(ws))) # 0

(***************************************************************************)
(* State.                                                                  *)
(***************************************************************************)
VARIABLES
    pc,           \* position of main()
    r,            \* the HTTP response received
    j,            \* the parsed JSON body
    df,           \* the table fetch_asos_hourly returned
    fit,          \* what fit_weibull did
    files,        \* the output files written
    log,          \* the steps taken and messages printed, in order
    exitStatus,   \* the exit status once pc = "exited"
    exitCause,    \* why the run ended
    scipyOnEmpty  \* what the installed weibull_min.fit does on an empty sample

vars == <<pc, r, j, df, fit, files, log, exitStatus, exitCause, scipyOnEmpty>>

Init ==
    /\ pc = "main"
    /\ r = NoResponse
    /\ j = NoBody
    /\ df = EmptyDataFrame
    /\ fit = NoFit
    /\ files = {}
    /\ log = << >>
    /\ exitStatus = 0
    /\ exitCause = "running"
    /\ scipyOnEmpty \in {"raise", "nan"}

\* sys.exit(status), or an exception nobody catches (status 1).
Exit(status, cause) ==
    /\ pc' = "exited"
    /\ exitStatus' = status
    /\ exitCause' = cause

\* requests.get(base_url, params=params, timeout=60)
Request ==
    /\ pc = "main"
    /\ \/ \E e \in {"ConnectionError", "Timeout"} :
            /\ Exit(1, e)
            /\ log' = log \o <<"request">>
            /\ UNCHANGED r
       \/ \E s \in {200, 500}, b \in Bodies :
            /\ r' = [status |-> s, body |-> b]
            /\ pc' = "raise_for_status"
            /\ log' = log \o <<"request">>
            /\ UNCHANGED <<exitStatus, exitCause>>
    /\ UNCHANGED <<j, df, fit, files, scipyOnEmpty>>

RaiseForStatus_ignored ==
    /\ pc = "raise_for_status"
    /\ pc' = "json"
    /\ UNCHANGED <<r, j, df, fit, files, log, exitStatus, exitCause, scipyOnEmpty>>

\* r.raise_for_status()
RaiseForStatus ==
    /\ pc = "raise_for_status"
    /\ \/ /\ r.status >= 400
          /\ Exit(1, "HTTPError")
       \/ /\ r.status < 400
          /\ pc' = "json"
          /\ UNCHANGED <<exitStatus, exitCause>>
    /\ UNCHANGED <<r, j, df, fit, files, log, scipyOnEmpty>>

\* j = r.json() and the rest of fetch_asos_hourly.
Tabulate ==
    /\ pc = "json"
    /\ j' = r.body
    /\ \E out \in fetch_asos_hourly(r.body) :
          /\ df' = out.df
          /\ log' = log \o <<"json">>
                        \o (IF out.warned THEN <<"warn_header">> ELSE << >>)
                        \o (IF Len(ItemsOf(r.body)) = 0 THEN <<"error_no_items">> ELSE << >>)
                        \o <<"fetched">>
    /\ pc' = "check_empty"
    /\ UNCHANGED <<r, fit, files, exitStatus, exitCause, scipyOnEmpty>>

CheckEmpty_skips_csv ==
    /\ pc = "check_empty"
    /\ \/ /\ IsEmpty(df)
          /\ Exit(1, "empty")
       \/ /\ ~IsEmpty(df)
          /\ pc' = "check_ws"
          /\ UNCHANGED <<exitStatus, exitCause>>
    /\ UNCHANGED <<r, j, df, fit, files, log, scipyOnEmpty>>

CheckEmpty_continues ==
    /\ pc = "check_empty"
    /\ pc' = "csv"
    /\ UNCHANGED <<r, j, df, fit, files, log, exitStatus, exitCause, scipyOnEmpty>>

\* if df.empty: sys.exit(1)
CheckEmpty ==
    /\ pc = "check_empty"
    /\ \/ /\ IsEmpty(df)
          /\ Exit(1, "empty")
       \/ /\ ~IsEmpty(df)
          /\ pc' = "csv"
          /\ UNCHANGED <<exitStatus, exitCause>>
    /\ UNCHANGED <<r, j, df, fit, files, log, scipyOnEmpty>>

\* df.to_csv(out_csv, ...)
WriteCsv ==
    /\ pc = "csv"
    /\ files' = files \cup {"csv"}
    /\ log' = log \o <<"csv">>
    /\ pc' = "check_ws"
    /\ UNCHANGED <<r, j, df, fit, exitStatus, exitCause, scipyOnEmpty>>

CheckWs_cleanup ==
    /\ pc = "check_ws"
    /\ \/ /\ "ws" \notin df.columns
          /\ Exit(1, "no_ws")
          /\ log' = log \o <<"error_no_ws">>
          /\ files' = {}
       \/ /\ "ws" \in df.columns
          /\ pc' = "fit"
          /\ UNCHANGED <<exitStatus, exitCause, log, files>>
    /\ UNCHANGED <<r, j, df, fit, scipyOnEmpty>>

CheckWs_continues ==
    /\ pc = "check_ws"
    /\ pc' = "fit"
    /\ UNCHANGED <<r, j, df, fit, files, log, exitStatus, exitCause, scipyOnEmpty>>

\* if "ws" not in df.columns: ... sys.exit(1)
CheckWs ==
    /\ pc = "check_ws"
    /\ \/ /\ "ws" \notin df.columns
          /\ Exit(1, "no_ws")
          /\ log' = log \o <<"error_no_ws">>
       \/ /\ "ws" \in df.columns
          /\ pc' = "fit"
          /\ UNCHANGED <<exitStatus, exitCause, log>>
    /\ UNCHANGED <<r, j, df, fit, files, scipyOnEmpty>>

\* k, c = fit_weibull(df["ws"]); an error of the fitting routine is not caught.
Fit ==
    /\ pc = "fit"
    /\ fit' = fit_weibull(Column(df), scipyOnEmpty)
    /\ \/ /\ fit'.result.kind = "raise"
          /\ Exit(1, "fit_error")
          /\ log' = log \o <<"fit">>
                        \o (IF fit'.warned THEN <<"warn_low_sample">> ELSE << >>)
       \/ /\ fit'.result.kind # "raise"
          /\ pc' = "plot"
          /\ log' = log \o <<"fit">>
                        \o (IF fit'.warned THEN <<"warn_low_sample">> ELSE << >>)
                        \o <<"fitted">>
          /\ UNCHANGED <<exitStatus, exitCause>>
    /\ UNCHANGED <<r, j, df, files, scipyOnEmpty>>

\* plot_hist_with_weibull(df["ws"], k, c, out_png)
Plot ==
    /\ pc = "plot"
    /\ \/ /\ plot_hist_with_weibull(Column(df))
          /\ files' = files \cup {"png"}
          /\ log' = log \o <<"plot", "png", "plotted">>
       \/ /\ ~plot_hist_with_weibull(Column(df))
          /\ log' = log \o <<"plot", "warn_nothing_to_plot", "plotted">>
          /\ UNCHANGED files
    /\ pc' = "summary"
    /\ UNCHANGED <<r, j, df, fit, exitStatus, exitCause, scipyOnEmpty>>

\* the mean wind speed and the closing lines; main returns.
Summary ==
    /\ pc = "summary"
    /\ log' = log \o <<"summary">>
    /\ Exit(0, "done")
    /\ UNCHANGED <<r, j, df, fit, files, scipyOnEmpty>>

Next ==
    \/ Request
    \/ RaiseForStatus
    \/ Tabulate
    \/ CheckEmpty
    \/ WriteCsv
    \/ CheckWs
    \/ Fit
    \/ Plot
    \/ Summary

Spec == Init /\ [][Next]_vars

(***************************************************************************)
(* fit_weibull on its own: main at the call fit_weibull(df["ws"]), for a   *)
(* response whose items carry only "ws".                                   *)
(***************************************************************************)
SampleLists ==
    UNION {[1..k -> [item : {[tm |-> NoKey, ws |-> w] : w \in WsRaw}, n : RunLens]] :
              k \in 1..MaxSample}

InitFit ==
    /\ pc = "fit"
    /\ \E l \in SampleLists :
          /\ j = [resultCode |-> "00", hasItem |-> TRUE, item |-> l]
          /\ r = [status |-> 200, body |-> j]
          /\ df \in {o.df : o \in fetch_asos_hourly(j)}
    /\ fit = NoFit
    /\ files = {"csv"}
    /\ log = <<"request", "json", "fetched", "csv">>
    /\ exitStatus = 0
    /\ exitCause = "running"
    /\ scipyOnEmpty \in {"raise", "nan"}

NextFit ==
    \/ Fit
    \/ Plot
    \/ Summary

SpecFit == InitFit /\ [][NextFit]_vars

(***************************************************************************)
(* Properties.                                                             *)
(***************************************************************************)
Has(e) == \E i \in 1..Len(log) : log[i] = e
Count(e) == Cardinality({i \in 1..Len(log) : log[i] = e})
IsBefore(a, b) == \E i, k \in 1..Len(log) : i < k /\ log[i] = a /\ log[k] = b

\* The entries of a sample that are defined and >= 0, in their order.
Usable(ws) == SelectSeq(ws, LAMBDA x : x.v.na = FALSE /\ ~(x.v.v < 0))

\* C1: when fit_weibull is called with a sample of usable count 0, it fails
\* with InsufficientDataError, the fitting routine is never invoked and no
\* (k, c) pair is returned.
C1_EmptySampleRaisesInsufficientData ==
    (Has("fit") /\ Length(Usable(Column(df))) = 0) =>
        /\ fit.calls = 0
        /\ pc = "exited"
        /\ exitCause = "InsufficientDataError"

\* C2: for a response whose item list is empty or absent, the table fetched
\* is empty and the run can only exit with status 1: no CSV is written,
\* fit_weibull is not called and no PNG is written.
C2_NoItemsExitsBeforeAnyStep ==
    (Has("fetched") /\ Len(ItemsOf(j)) = 0) =>
        /\ df = EmptyDataFrame
        /\ Has("error_no_items")
        /\ pc \in {"check_empty", "exited"}
        /\ pc = "exited" => (exitStatus = 1 /\ exitCause = "empty")
        /\ files = {}
        /\ fit = NoFit
        /\ ~Has("csv") /\ ~Has("fit") /\ ~Has("plot")

C2_Witness ==
    /\ pc = "exited" /\ exitStatus = 1 /\ exitCause = "empty"
    /\ ~j.hasItem

\* C3: for a non-empty fetched table without a "ws" column the run can only
\* exit with status 1, and neither fit_weibull nor plot_hist_with_weibull is
\* called.
C3_NoWsColumnExitsBeforeFit ==
    (Has("fetched") /\ ~IsEmpty(df) /\ "ws" \notin df.columns) =>
        /\ pc \in {"check_empty", "csv", "check_ws", "exited"}
        /\ pc = "exited" => (exitStatus = 1 /\ exitCause = "no_ws")
        /\ fit = NoFit
        /\ ~Has("fit") /\ ~Has("plot")

C3_Witness ==
    /\ pc = "exited" /\ exitStatus = 1 /\ exitCause = "no_ws"
    /\ Len(df.rows) = 2

\* C4: fit_weibull hands the fitting routine exactly the entries of the sample
\* that are defined and >= 0 (zeros kept, order kept), and its sample count,
\* warning and result are those of fit_weibull on the sample stripped of the
\* invalid entries beforehand.
C4_OnlyUsableEntriesAreFitted ==
    Has("fit") =>
        /\ fit.data = Usable(Column(df))
        /\ Length(fit.data) = Length(Usable(Column(df)))
        /\ fit = fit_weibull(Usable(Column(df)), scipyOnEmpty)

C4_Witness ==
    /\ Has("fitted")
    /\ Len(df.rows) = 3
    /\ df.rows[1].ws = Num(-1) /\ df.rows[2].ws = NaN /\ df.rows[3].ws = Num(0)
    /\ fit.data = <<[v |-> Num(0), n |-> df.rows[3].n]>>

StepsOf(l) == SelectSeq(l, LAMBDA e : e \in {"request", "csv", "fit", "plot", "summary"})

\* C5: the steps fetch, CSV write, fit, plot, summary occur at most once each
\* and in that order: the CSV is written only after the fetch returned a
\* non-empty table, the fit starts only after the CSV write, the plot only
\* after the fit returned (k, c), the summary only after the plot returned.
C5_StepsInOrder ==
    /\ StepsOf(log) = SubSeq(<<"request", "csv", "fit", "plot", "summary">>, 1,
                             Len(StepsOf(log)))
    /\ Has("csv") => (IsBefore("fetched", "csv") /\ ~IsEmpty(df))
    /\ Has("fit") => ("csv" \in files /\ IsBefore("csv", "fit"))
    /\ Has("plot") => (IsBefore("fitted", "plot") /\ fit.result.kind \in {"mle", "nan"})
    /\ Has("summary") => IsBefore("plotted", "summary")

C5_Witness ==
    /\ pc = "exited" /\ exitStatus = 0
    /\ StepsOf(log) = <<"request", "csv", "fit", "plot", "summary">>

C8_TransportErrorEndsRun ==
    /\ Count("request") <= 1
    /\ r.status >= 400 =>
          /\ pc \in {"raise_for_status", "exited"}
          /\ pc = "exited" => exitCause = "HTTPError"
    /\ exitCause \in {"ConnectionError", "Timeout", "HTTPError"} =>
          /\ pc = "exited" /\ exitStatus = 1
          /\ Count("request") = 1
          /\ ~Has("json") /\ j = NoBody /\ df = EmptyDataFrame
          /\ files = {} /\ fit = NoFit
          /\ ~Has("csv") /\ ~Has("fit") /\ ~Has("plot")

C8_Witness ==
    /\ pc = "exited" /\ exitCause = "HTTPError"
    /\ r.status = 500 /\ Len(r.body.item) = 2

\* The timestamps of a table are in ascending order: no row stands before a
\* row of a strictly earlier timestamp.
Ascending(rows) ==
    \A i, k \in 1..Len(rows) :
        (i < k /\ ~rows[i].tm.na /\ ~rows[k].tm.na) => rows[i].tm.v <= rows[k].tm.v

\* Row x of the table is item y of the response.
RowIsItem(x, y, cols) ==
    /\ x.n = y.n
    /\ "tm" \in cols => x.tm = to_datetime(y.item.tm)
    /\ "ws" \in cols => x.ws = to_numeric(y.item.ws)

\* C9: for a non-empty item list the table returned holds exactly the items
\* received (a permutation of them), in ascending order of timestamp.
C9_TableIsSortedPermutation ==
    (Has("fetched") /\ Len(ItemsOf(j)) > 0) =>
        /\ Len(df.rows) = Len(ItemsOf(j))
        /\ Length(df.rows) = Length(ItemsOf(j))
        /\ \E p \in Perms(Len(ItemsOf(j))) :
              \A i \in 1..Len(df.rows) :
                  RowIsItem(df.rows[i], ItemsOf(j)[p[i]], df.columns)
        /\ Ascending(df.rows)

C9_Witness ==
    /\ Has("fetched")
    /\ Len(ItemsOf(j)) = 2
    /\ ItemsOf(j)[1].item.tm = "2024-01-01 02:00"
    /\ ItemsOf(j)[2].item.tm = "2024-01-01 01:00"
    /\ df.rows[1].tm = Num(1) /\ df.rows[2].tm = Num(2)

C10_FilesLeftBehind ==
    /\ (pc = "exited" /\ exitCause = "empty") => files = {}
    /\ (pc = "exited" /\ exitCause = "no_ws") => files = {"csv"}
    /\ "png" \in files => ("csv" \in files /\ IsBefore("csv", "png"))

\* C10: files written are never removed; an exit for an empty item list leaves
\* no file, an exit for a missing "ws" column leaves the CSV and no PNG, and a
\* PNG is written only if the CSV was written earlier in the run.
C10_OutputFilesOnFailure ==
    /\ []C10_FilesLeftBehind
    /\ [][files \subseteq files']_vars

C10_Witness ==
    /\ pc = "exited" /\ exitStatus = 1 /\ exitCause = "no_ws"
    /\ files = {"csv"}

====
